---- MODULE Spec2Model ----
(***************************************************************************)
(* Density control, incremental growth and optimizer-state synchronisation *)
(* of LLGaussianSplattingModel, in its two variants:                       *)
(*   "old"  l3gs/model/ll_gaussian_splatting_old.py                        *)
(*   "new"  l3gs/model/ll_gaussian_splatting.py                            *)
(* The trainer runs, per iteration: step_cb, the train iteration (render,  *)
(* backward, optimizer step), after_train, refinement_after (every         *)
(* refine_every steps) and add_deprojected_means.                          *)
(*                                                                         *)
(* Units.  Opacity logits are represented by their activated value in      *)
(* 1/1000 (sigmoid and logit are monotone inverses of each other, so a     *)
(* comparison or clamp in one space is the same comparison or clamp in the *)
(* other).  Log-scales are represented by exp(scale) = m / (30000 * 1.6^k) *)
(* per axis, so that 0.01, 0.02, 1/3, 0.5, 2.9 and the division by 1.6 are *)
(* all exact.  Screen sizes are in 1/10000 of the larger image dimension,  *)
(* gradient norms (already multiplied by 0.5*max(H,W)) in 1/100000.        *)
(***************************************************************************)
EXTENDS Integers, Sequences, FiniteSets, TLC

\* ------------------------------------------------------------------ bounds
MaxIters == 5
MaxN == 7
MaxPending == 2
\* the iterations of a behaviour before which the deprojection source delivers
FeedIters == 2

\* ------------------------------------------------------- program constants
CullDwellMin == 5500
CullDwellMax == 10000
size_fac_num == 16
size_fac_den == 10
GrowMomentFillOld == 4
GrowMomentFillNew == 0
DupMomentFill == 0
GrowScaleOld == 600
GrowScaleNew == 10000
GrowOpacityNew == 250
ResetValueNew == 150
InitOpacity == 10
C0 == 282

\* ---------------------------------------------------------------- helpers
None == [none |-> TRUE, v |-> <<>>]

Some(s) == [none |-> FALSE, v |-> s]

Max2(a, b) == IF a >= b THEN a ELSE b

Min2(a, b) == IF a <= b THEN a ELSE b

RECURSIVE Pow(_, _)
Pow(b, e) == IF e = 0 THEN 1 ELSE b * Pow(b, e - 1)

\* x[mask] : the rows of x where mask is true, in index order
RECURSIVE MaskSelect(_, _)
MaskSelect(x, mask) ==
    IF x = <<>> \/ mask = <<>> THEN <<>>
    ELSE (IF Head(mask) THEN <<Head(x)>> ELSE <<>>) \o MaskSelect(Tail(x), Tail(mask))

\* ~mask
Not(mask) == [i \in 1..Len(mask) |-> ~mask[i]]

\* a | b  and  a & b  on masks of the same length
Or(a, b) == [i \in 1..Len(a) |-> a[i] \/ b[i]]

And(a, b) == [i \in 1..Len(a) |-> a[i] /\ b[i]]

\* mask.sum()
RECURSIVE Sum(_)
Sum(mask) == IF mask = <<>> THEN 0 ELSE (IF Head(mask) THEN 1 ELSE 0) + Sum(Tail(mask))

\* torch.where(mask)[0] : the indices where mask is true, ascending
RECURSIVE WhereFrom(_, _)
WhereFrom(mask, i) ==
    IF i > Len(mask) THEN <<>>
    ELSE (IF mask[i] THEN <<i>> ELSE <<>>) \o WhereFrom(mask, i + 1)

Where(mask) == WhereFrom(mask, 1)

\* x[idcs] for an index tensor
IndexSelect(x, idcs) == [j \in 1..Len(idcs) |-> x[idcs[j]]]

\* x.repeat(n, 1) : the whole block tiled n times
RECURSIVE Repeat(_, _)
Repeat(x, n) == IF n = 0 THEN <<>> ELSE x \o Repeat(x, n - 1)

Falses(n) == [i \in 1..n |-> FALSE]

Fill(n, val) == [i \in 1..n |-> val]

\* ------------------------------------------------------------- conversions
\* RGB2SH on colors in 1/1000 : (rgb - 0.5) / C0, C0 = 0.282...
RGB2SH(rgb) == ((rgb - 500) * 1000) \div C0

\* colors / 255 when colors.max() > 1.0
NormalizeColors(colors) ==
    IF \E i \in 1..Len(colors) : colors[i] > 1000
    THEN [i \in 1..Len(colors) |-> colors[i] \div 255]
    ELSE colors

\* exp(scale row).max(dim=-1) > thresh, thresh in 1/30000
ExpScaleMaxGt(row, thresh) ==
    \E a \in 1..3 : row.m[a] * Pow(size_fac_den, row.k) > thresh * Pow(size_fac_num, row.k)

\* a shrink by size_fac squared
ShrinkScale_twice(row) == [m |-> row.m, k |-> row.k + 2]

\* log(exp(scale row) / size_fac)
ShrinkScale(row) == [m |-> row.m, k |-> row.k + 1]

\* ------------------------------------------------------------------ state
VARIABLES
    variant,          \* which of the two model files is running
    config,           \* LLGaussianSplattingModelConfig
    num_train_data,   \* number of training images known to the datamanager
    iter,             \* the trainer's loop counter (the step passed to callbacks)
    ran,              \* iterations executed in this behaviour
    pc,               \* position inside the training iteration
    step,             \* self.step
    steps_since_add,  \* self.steps_since_add
    postBA,           \* self.postBA
    params,           \* group -> rows of the Point Store
    prim,             \* identity of the primitive held by each row
    nextId,           \* next fresh primitive identity
    optim,            \* group -> Adam state (exp_avg, exp_avg_sq)
    xys_grad_norm,    \* accumulated gradient norm, or None
    vis_counts,       \* accumulated visibility count, or None
    max_2Dsize,       \* accumulated max screen size, or None
    radii,            \* self.radii of the last render
    xys_grad,         \* self.xys.grad of the last render, or None
    deprojected_new,  \* pending deprojected points
    colors_new,       \* pending colors
    err,              \* exception that ended training, or "none"
    last,             \* log of the structural operations of the last callback
    reset_at,         \* step of the latest opacity reset of this run, or -1
    outputs,          \* the last viewer call of get_outputs and its result, or None
    ladder            \* the relevancy scan of get_max_across

vars == <<variant, config, num_train_data, iter, ran, pc, step, steps_since_add,
          postBA, params, prim, nextId, optim, xys_grad_norm, vis_counts,
          max_2Dsize, radii, xys_grad, deprojected_new, colors_new, err, last,
          reset_at, outputs, ladder>>

\* get_gaussian_param_groups without 'lerf'
TrackedGroups(v) ==
    IF v = "old"
    THEN {"xyz", "features_dc", "features_rest", "opacity", "scaling", "rotation"}
    ELSE {"xyz", "color", "opacity", "scaling", "rotation"}

get_gaussian_param_groups(v) == TrackedGroups(v) \cup {"lerf"}

num_points == Len(params["xyz"])

ids == {prim[i].id : i \in 1..Len(prim)}

\* ------------------------------------------------------------ configuration
\* LLGaussianSplattingModelConfig: the thresholds at their defaults
DefaultThresholds(v) ==
    IF v = "old"
    THEN [cull_alpha_thresh |-> 85, cull_scale_thresh |-> 15000,
          densify_grad_thresh |-> 20, densify_size_thresh |-> 300,
          cull_screen_size |-> 1500, split_screen_size |-> 500,
          init_opacity |-> 200, n_split_samples |-> 2]
    ELSE [cull_alpha_thresh |-> 100, cull_scale_thresh |-> 87000,
          densify_grad_thresh |-> 5, densify_size_thresh |-> 300,
          cull_screen_size |-> 9000, split_screen_size |-> 9,
          init_opacity |-> 250, n_split_samples |-> 2]

\* LLGaussianSplattingModelConfig: the schedule fields, at values that put
\* every window of the schedule within a few iterations
Schedule(warmup, stop_split, stop_screen, continue_cull) ==
    [warmup_length |-> warmup, refine_every |-> 2, reset_alpha_every |-> 3,
     stop_split_at |-> stop_split, stop_screen_size_at |-> stop_screen,
     continue_cull_post_densification |-> continue_cull]

NumTrainData == {1}

\* (H, W) of the training camera, self.last_size
last_size == <<800, 1000>>

\* ------------------------------------------------------------- initial state
\* A scale row from the mean nearest-neighbour distance (isotropic)
IsoScale(m) == [m |-> <<m, m, m>>, k |-> 0]

Row(v, xyz, dc, opac, scale, quat) ==
    IF v = "old"
    THEN [xyz |-> xyz, features_dc |-> dc, features_rest |-> 0, opacity |-> opac,
          scaling |-> scale, rotation |-> quat]
    ELSE [xyz |-> xyz, color |-> <<dc, 0>>, opacity |-> opac,
          scaling |-> scale, rotation |-> quat]

\* populate_modules: the Point Store built from three seed points, the first
\* just above densify_size_thresh, the second below it, the third well above
SeedRows(v) ==
    << Row(v, 1, RGB2SH(1000), InitOpacity, IsoScale(400), 1),
       Row(v, 2, RGB2SH(0), InitOpacity, IsoScale(200), 2),
       Row(v, 3, RGB2SH(500), InitOpacity, IsoScale(600), 3) >>

\* a Point Store as training leaves it after some thousand iterations: a large
\* opaque point, a small anisotropic opaque point, a large faint point
TrainedRows(v) ==
    << Row(v, 1, RGB2SH(1000), 500, IsoScale(600), 1),
       Row(v, 2, RGB2SH(0), 500, [m |-> <<200, 200, 100>>, k |-> 0], 2),
       Row(v, 3, RGB2SH(500), 50, IsoScale(600), 3) >>

\* the same Point Store with the second point grown far above cull_scale_thresh
HugeRows(v) ==
    << Row(v, 1, RGB2SH(1000), 500, IsoScale(600), 1),
       Row(v, 2, RGB2SH(0), 500, IsoScale(90000), 2),
       Row(v, 3, RGB2SH(500), 50, IsoScale(600), 3) >>

ParamsOf(v, rows) == [g \in TrackedGroups(v) |-> [i \in 1..Len(rows) |-> rows[i][g]]]

\* where the trainer stands: at its first iteration, or at a later iteration
\* reached with the statistics just cleared by a refinement pass, a growth
\* event having happened (postBA) steps_since_add iterations ago or never
Start(it, since, grown) ==
    [iter |-> it, steps_since_add |-> since, postBA |-> grown, trained |-> it > 0,
     huge |-> FALSE]

\* a later iteration reached with one point grown huge
StartHuge(it, since, grown) == [Start(it, since, grown) EXCEPT !.huge = TRUE]

\* the runs explored: a start and a schedule
Scenarios ==
    { <<Start(0, 0, FALSE), Schedule(1, 50000, 50000, FALSE)>>,
      <<Start(0, 0, FALSE), Schedule(1, 50000, 3, FALSE)>>,
      <<Start(0, 0, FALSE), Schedule(4, 6, 50000, TRUE)>>,
      <<Start(0, 0, FALSE), Schedule(1, 0, 50000, TRUE)>>,
      <<Start(5497, 5496, TRUE), Schedule(1, 50000, 50000, FALSE)>>,
      <<Start(5497, 5490, TRUE), Schedule(1, 50000, 50000, FALSE)>>,
      <<Start(5497, 5497, FALSE), Schedule(1, 50000, 50000, FALSE)>>,
      <<StartHuge(5497, 5496, TRUE), Schedule(1, 50000, 50000, FALSE)>>,
      <<Start(9997, 9996, TRUE), Schedule(1, 50000, 50000, FALSE)>>,
      <<Start(5497, 5496, TRUE), Schedule(4, 6, 50000, TRUE)>>,
      <<Start(5497, 5496, TRUE), Schedule(4, 6, 3, TRUE)>>,
      <<Start(5497, 5496, TRUE), Schedule(4, 6, 3, FALSE)>> }

LerfState == [has |-> TRUE, exp_avg |-> <<[own |-> 0, v |-> 1]>>,
              exp_avg_sq |-> <<[own |-> 0, v |-> 1]>>]

NoState == [has |-> FALSE, exp_avg |-> <<>>, exp_avg_sq |-> <<>>]

\* no relevancy scan under way
NoScan == [pc |-> "idle", probs |-> <<>>, i |-> 0, n_phrases_maxs |-> <<>>,
           n_phrases_sims |-> <<>>]

\* the model after populate_modules and the trainer's setup, in one of scs
Setup(scs) ==
    /\ variant \in {"old", "new"}
    /\ num_train_data \in NumTrainData
    /\ \E sc \in scs :
         LET st == sc[1]
             sched == sc[2]
             thr == DefaultThresholds(variant)
             rows == IF st.huge THEN HugeRows(variant)
                     ELSE IF st.trained THEN TrainedRows(variant)
                     ELSE SeedRows(variant)
             n == Len(rows)
             mom == [i \in 1..n |-> [own |-> i, v |-> 1]]
         IN /\ config = [f \in (DOMAIN sched) \cup (DOMAIN thr) |->
                            IF f \in DOMAIN sched THEN sched[f] ELSE thr[f]]
            /\ iter = st.iter
            /\ step = IF st.trained THEN st.iter - 1 ELSE 0
            /\ steps_since_add = st.steps_since_add
            /\ postBA = (st.postBA /\ variant = "old")
            /\ params = ParamsOf(variant, rows)
            /\ prim = [i \in 1..n |-> [id |-> i, kind |-> "seed", from |-> 0,
                                       stepped |-> st.trained, born |-> 0]]
            /\ nextId = n + 1
            /\ optim = [g \in get_gaussian_param_groups(variant) |->
                          IF ~st.trained THEN NoState
                          ELSE IF g = "lerf" THEN LerfState
                          ELSE [has |-> TRUE, exp_avg |-> mom, exp_avg_sq |-> mom]]
    /\ ran = 0
    /\ pc = "idle"
    /\ xys_grad_norm = None
    /\ vis_counts = None
    /\ max_2Dsize = None
    /\ radii = <<>>
    /\ xys_grad = None
    /\ deprojected_new = <<>>
    /\ colors_new = <<>>
    /\ err = "none"
    /\ last = <<>>
    /\ reset_at = -1
    /\ outputs = None
    /\ ladder = NoScan

Init == Setup(Scenarios)

\* ------------------------------------------------------------- environment
\* what one render returns for a population of n points: at most one point
\* with a large screen-space gradient (hot), at most one invisible point
\* (hid), the hot point optionally covering a large part of the screen; or a
\* frame in which no point is visible (hid = -1)
Frames(n) ==
    { [hot |-> h, hid |-> z, big |-> b] :
        h \in {0, 1, 2} \cap (0..n), z \in {0, n}, b \in BOOLEAN }
    \cup { [hot |-> 0, hid |-> -1, big |-> FALSE] }

FrameOk(f) == (f.hot # 2 => ~f.big) /\ (f.hot # 0 => f.hid = 0)

\* radii in pixels, gradient norms in 1/10^8
RenderLevels == [small |-> 1, big |-> 200, hot |-> 100]

\* what the optimizer step does to the values the decisions read
Drifts == {"none", "opaque", "fadeLast"}

Drift(d, opac) ==
    [i \in 1..Len(opac) |->
        IF d = "opaque" THEN 500
        ELSE IF d = "fadeLast" /\ i = Len(opac) THEN 50
        ELSE opac[i]]

\* the iterations explored: any frame with the values left as they are, or a
\* frame without a hot point with one of the drifts
TrainInputs(n) ==
    { in \in [f : Frames(n), d : Drifts] :
        FrameOk(in.f) /\ (in.d # "none" => in.f.hot = 0 /\ in.f.hid = 0) }

\* batches the deprojection source hands over: points, and their colors on
\* the 0..1 scale or on the 0..255 scale (both in 1/1000); the k-th pending
\* batch is Batches[k]
Batches ==
    << [points |-> <<7>>, colors |-> <<800>>],
       [points |-> <<8, 9>>, colors |-> <<255000, 0>>],
       [points |-> <<6>>, colors |-> <<500>>] >>

\* ---------------------------------------------------------------- callbacks
Running == err = "none"

\* step_cb that sets the step and leaves steps_since_add alone
StepCb_no_count ==
    /\ Running /\ pc = "idle" /\ ran < MaxIters
    /\ step' = iter
    /\ pc' = "stepped"
    /\ last' = <<>>
    /\ UNCHANGED <<reset_at, outputs, ladder, variant, config, num_train_data, iter, ran, steps_since_add, postBA,
                   params, prim, nextId, optim, xys_grad_norm, vis_counts, max_2Dsize,
                   radii, xys_grad, deprojected_new, colors_new, err>>

\* step_cb, run BEFORE_TRAIN_ITERATION
StepCb ==
    /\ Running /\ pc = "idle" /\ ran < MaxIters
    /\ step' = iter
    /\ steps_since_add' = steps_since_add + 1
    /\ pc' = "stepped"
    /\ last' = <<>>
    /\ UNCHANGED <<reset_at, outputs, ladder, variant, config, num_train_data, iter, ran, postBA, params, prim,
                   nextId, optim, xys_grad_norm, vis_counts, max_2Dsize, radii,
                   xys_grad, deprojected_new, colors_new, err>>

\* the deprojection source appends to the pending lists between iterations;
\* the old variant receives one tensor of points per observation, the new
\* variant one tensor per point
Deproject ==
    /\ Running /\ pc = "idle" /\ ran < MaxIters
    /\ Len(deprojected_new) < MaxPending /\ ran < FeedIters
    /\ LET b == Batches[((Len(deprojected_new)) % Len(Batches)) + 1]
       IN IF variant = "old"
          THEN /\ deprojected_new' = Append(deprojected_new, b.points)
               /\ colors_new' = Append(colors_new, b.colors)
          ELSE /\ deprojected_new' = Append(deprojected_new, b.points[1])
               /\ colors_new' = Append(colors_new, b.colors[1])
    /\ UNCHANGED <<reset_at, outputs, ladder, variant, config, num_train_data, iter, ran, pc, step,
                   steps_since_add, postBA, params, prim, nextId, optim,
                   xys_grad_norm, vis_counts, max_2Dsize, radii, xys_grad, err, last>>

\* one Adam step on a tracked group: the state is created on the first step,
\* and every moment row absorbs the gradient of the Point Store row at its index
AdamStep(st, n) ==
    [has |-> TRUE,
     exp_avg |-> [i \in 1..n |-> [own |-> prim[i].id, v |-> 1]],
     exp_avg_sq |-> [i \in 1..n |-> [own |-> prim[i].id, v |-> 1]]]

\* the train iteration: get_outputs in training mode, backward, optimizer step
TrainIteration ==
    /\ Running /\ pc = "stepped"
    /\ \E in \in TrainInputs(num_points),
          rasterizer \in IF variant = "new" THEN {"raises", "draws"} ELSE {"draws"} :
         LET f == in.f
             d == in.d
             n == num_points
             r == [i \in 1..n |-> IF i = f.hid \/ f.hid = -1 THEN 0
                                  ELSE IF i = f.hot /\ f.big THEN RenderLevels.big
                                  ELSE RenderLevels.small]
             visible == \E i \in 1..n : r[i] > 0
             shapes == \A g \in TrackedGroups(variant) :
                          optim[g].has => Len(optim[g].exp_avg) = n
         IN /\ radii' = r
            /\ IF ~visible /\ variant = "old"
               THEN \* (self.radii).sum() == 0 : the background is returned before
                    \* retain_grad, no parameter receives a gradient
                    /\ xys_grad' = None
                    /\ UNCHANGED <<params, prim, optim, err>>
               ELSE IF ~visible /\ rasterizer = "raises"
               THEN \* the new variant has no such check and calls the rasterizer
                    /\ err' = "RasterizeGaussians: nothing to rasterize"
                    /\ xys_grad' = None
                    /\ UNCHANGED <<params, prim, optim>>
               ELSE IF ~shapes
               THEN /\ err' = "optimizer: moment buffer and parameter differ in shape"
                    /\ xys_grad' = None
                    /\ UNCHANGED <<params, prim, optim>>
               ELSE /\ xys_grad' = Some([i \in 1..n |-> IF i = f.hot THEN RenderLevels.hot ELSE 0])
                    /\ optim' = [g \in DOMAIN optim |->
                                   IF g = "lerf" THEN LerfState ELSE AdamStep(optim[g], n)]
                    /\ prim' = [i \in 1..n |-> [prim[i] EXCEPT !.stepped = TRUE]]
                    /\ params' = [params EXCEPT !["opacity"] = Drift(d, @)]
                    /\ UNCHANGED err
    /\ pc' = "trained"
    /\ UNCHANGED <<reset_at, outputs, ladder, variant, config, num_train_data, iter, ran, step, steps_since_add,
                   postBA, nextId, xys_grad_norm, vis_counts, max_2Dsize,
                   deprojected_new, colors_new, last>>

\* newradii / float(max(self.last_size[0], self.last_size[1])), in 1/10000
ScreenSize(radius) == (radius * 10000) \div Max2(last_size[1], last_size[2])

\* after_train: accumulate the statistics of the frame just rendered
AfterTrain ==
    /\ Running /\ pc = "trained"
    /\ pc' = "stats"
    /\ LET n == Len(radii)
           visible_mask == [i \in 1..n |-> radii[i] > 0]
           first == xys_grad_norm.none
           fits == /\ (~first => Len(xys_grad_norm.v) = n /\ ~vis_counts.none
                                 /\ Len(vis_counts.v) = n)
                   /\ (~max_2Dsize.none => Len(max_2Dsize.v) = n)
           grads == xys_grad.v
           base == IF variant = "new" THEN grads ELSE xys_grad_norm.v
           m2d == IF max_2Dsize.none THEN Fill(n, 0) ELSE max_2Dsize.v
       IN IF variant = "old" /\ step >= config.stop_split_at
          THEN UNCHANGED <<xys_grad_norm, vis_counts, max_2Dsize, err>>
          ELSE IF xys_grad.none
          THEN /\ err' = "after_train: xys.grad is None"
               /\ UNCHANGED <<xys_grad_norm, vis_counts, max_2Dsize>>
          ELSE IF ~fits
          THEN /\ err' = "after_train: mask and statistics differ in shape"
               /\ UNCHANGED <<xys_grad_norm, vis_counts, max_2Dsize>>
          ELSE /\ xys_grad_norm' =
                    IF first THEN Some(grads)
                    ELSE Some([i \in 1..n |-> IF visible_mask[i]
                                              THEN grads[i] + base[i] ELSE base[i]])
               /\ vis_counts' =
                    IF first THEN Some(Fill(n, 1))
                    ELSE Some([i \in 1..n |-> IF visible_mask[i]
                                              THEN vis_counts.v[i] + 1 ELSE vis_counts.v[i]])
               /\ max_2Dsize' =
                    Some([i \in 1..n |-> IF visible_mask[i]
                                         THEN Max2(m2d[i], ScreenSize(radii[i])) ELSE m2d[i]])
               /\ UNCHANGED err
    /\ UNCHANGED <<reset_at, outputs, ladder, variant, config, num_train_data, iter, ran, step, steps_since_add,
                   postBA, params, prim, nextId, optim, radii, xys_grad,
                   deprojected_new, colors_new, last>>

\* ------------------------------------------------- optimizer synchronisation
ZeroMoment == [own |-> 0, v |-> DupMomentFill]

\* torch.zeros_like(x)
ZerosLike(x) == [i \in 1..Len(x) |-> ZeroMoment]

\* dup_in_optim that appends one block whatever n is
dup_in_optim_one_block(st, dup_mask, n) ==
    IF st.has
    THEN [st EXCEPT
            !.exp_avg = @ \o ZerosLike(IndexSelect(st.exp_avg, dup_mask)),
            !.exp_avg_sq = @ \o ZerosLike(IndexSelect(st.exp_avg_sq, dup_mask))]
    ELSE st

\* dup_in_optim: append n blocks of zero rows, one row per duplicated index
dup_in_optim(st, dup_mask, n) ==
    IF st.has
    THEN [st EXCEPT
            !.exp_avg = @ \o Repeat(ZerosLike(IndexSelect(st.exp_avg, dup_mask)), n),
            !.exp_avg_sq = @ \o Repeat(ZerosLike(IndexSelect(st.exp_avg_sq, dup_mask)), n)]
    ELSE st

\* dup_in_all_optim: every group but 'lerf'
dup_in_all_optim(opt, dup_mask, n) ==
    [g \in DOMAIN opt |-> IF g = "lerf" THEN opt[g] ELSE dup_in_optim(opt[g], dup_mask, n)]

\* remove_from_optim that shortens the buffers from the end
remove_from_optim_tail(st, deleted_mask) ==
    IF st.has
    THEN [st EXCEPT
            !.exp_avg = SubSeq(@, 1, Len(@) - Sum(deleted_mask)),
            !.exp_avg_sq = SubSeq(@, 1, Len(@) - Sum(deleted_mask))]
    ELSE st

\* remove_from_optim: keep the moment rows the mask does not delete
remove_from_optim(st, deleted_mask) ==
    IF st.has
    THEN [st EXCEPT !.exp_avg = MaskSelect(@, Not(deleted_mask)),
                    !.exp_avg_sq = MaskSelect(@, Not(deleted_mask))]
    ELSE st

\* remove_from_all_optim that also zeroes the moments it keeps
remove_from_all_optim_reset(opt, deleted_mask) ==
    [g \in DOMAIN opt |->
        IF g = "lerf" THEN opt[g]
        ELSE [remove_from_optim(opt[g], deleted_mask) EXCEPT
                !.exp_avg = ZerosLike(@), !.exp_avg_sq = ZerosLike(@)]]

\* remove_from_all_optim that does not skip the 'lerf' group
remove_from_all_optim_with_lerf(opt, deleted_mask) ==
    [g \in DOMAIN opt |->
        IF g = "lerf"
        THEN [opt[g] EXCEPT !.exp_avg = SubSeq(@, 1, Len(@) - Sum(deleted_mask)),
                            !.exp_avg_sq = SubSeq(@, 1, Len(@) - Sum(deleted_mask))]
        ELSE remove_from_optim(opt[g], deleted_mask)]

\* remove_from_all_optim: every group but 'lerf'
remove_from_all_optim(opt, deleted_mask) ==
    [g \in DOMAIN opt |-> IF g = "lerf" THEN opt[g] ELSE remove_from_optim(opt[g], deleted_mask)]

\* the fill value add_new_params_to_optimizer multiplies the ones by, in 1/10
GrowMomentFill(v) == IF v = "old" THEN GrowMomentFillOld ELSE GrowMomentFillNew

\* add_new_params_to_optimizer that writes the fill value over every row
add_new_params_to_optimizer_refill(st, num_new, v) ==
    [st EXCEPT
       !.exp_avg = Fill(Len(@) + num_new, [own |-> 0, v |-> GrowMomentFill(v)]),
       !.exp_avg_sq = Fill(Len(@) + num_new, [own |-> 0, v |-> GrowMomentFill(v)])]

\* add_new_params_to_optimizer: append num_new rows of the fill value
add_new_params_to_optimizer(st, num_new, v) ==
    [st EXCEPT !.exp_avg = @ \o Fill(num_new, [own |-> 0, v |-> GrowMomentFill(v)]),
               !.exp_avg_sq = @ \o Fill(num_new, [own |-> 0, v |-> GrowMomentFill(v)])]

\* ----------------------------------------------------------- density control
\* (xys_grad_norm / vis_counts) * 0.5 * max(last_size) > densify_grad_thresh
high_grads(gn, vc, cfg) ==
    [i \in 1..Len(gn) |->
        gn[i] * Max2(last_size[1], last_size[2]) > 2 * cfg.densify_grad_thresh * 1000 * vc[i]]

\* scales.exp().max(dim=-1).values > thresh, per row
ScaleAbove(scales, thresh) == [i \in 1..Len(scales) |-> ExpScaleMaxGt(scales[i], thresh)]

\* the split mask of refinement_after
SplitMask(P, gn, vc, m2d, cfg, stp) ==
    LET bysize == ScaleAbove(P["scaling"], cfg.densify_size_thresh)
        byscreen == [i \in 1..Len(m2d) |-> m2d[i] > cfg.split_screen_size]
        either == IF stp < cfg.stop_screen_size_at THEN Or(bysize, byscreen) ELSE bysize
    IN And(either, high_grads(gn, vc, cfg))

\* the duplicate mask of refinement_after, read from the scales as they are
\* when it is computed
DupMask(P, gn, vc, cfg) ==
    And(Not(ScaleAbove(P["scaling"], cfg.densify_size_thresh)), high_grads(gn, vc, cfg))

\* split_gaussians: the rows of the samps children of every selected point,
\* and self.scales after the in-place shrink of the selected rows
split_gaussians(P, split_mask, samps, sample) ==
    LET sel(g) == MaskSelect(P[g], split_mask)
        shrunk == [i \in 1..Len(sel("scaling")) |-> ShrinkScale(sel("scaling")[i])]
    IN [new |-> [g \in DOMAIN P |->
                   IF g = "xyz"
                   THEN Repeat([i \in 1..Len(sel(g)) |-> sel(g)[i] + sample], samps)
                   ELSE IF g = "scaling" THEN Repeat(shrunk, samps)
                   ELSE Repeat(sel(g), samps)],
        scales |-> [i \in 1..Len(P["scaling"]) |->
                      IF split_mask[i] THEN ShrinkScale(P["scaling"][i])
                      ELSE P["scaling"][i]]]

\* dup_gaussians that returns the first rows of the store, as many as selected
dup_gaussians_first(P, dup_mask) ==
    [g \in DOMAIN P |-> SubSeq(P[g], 1, Sum(dup_mask))]

\* dup_gaussians: the rows of the selected points
dup_gaussians(P, dup_mask) == [g \in DOMAIN P |-> MaskSelect(P[g], dup_mask)]

\* torch.randn samples of split_gaussians
CenteredSamples == {100}

\* the mask cull_gaussians computes
CullMask(v, P, m2d, extra_cull_mask, cfg, stp) ==
    LET n == Len(P["opacity"])
        alpha == [i \in 1..n |-> P["opacity"][i] < cfg.cull_alpha_thresh]
        withextra == Or(alpha, extra_cull_mask)
        toobigs == ScaleAbove(P["scaling"], cfg.cull_scale_thresh)
        screen == [i \in 1..n |-> m2d.v[i] > cfg.cull_screen_size]
    IN IF v = "new" THEN alpha
       ELSE IF stp > cfg.refine_every * cfg.reset_alpha_every
       THEN Or(withextra, IF stp < cfg.stop_screen_size_at THEN Or(toobigs, screen)
                          ELSE toobigs)
       ELSE withextra

\* cull_gaussians asserts self.max_2Dsize is not None before reading it
CullAsserts(v, m2d, cfg, stp) ==
    v = "old" /\ stp > cfg.refine_every * cfg.reset_alpha_every
    /\ stp < cfg.stop_screen_size_at /\ m2d.none

\* cull_gaussians that stores the survivors back to front
cull_gaussians_reversed(P, culls) ==
    [g \in DOMAIN P |->
        LET kept == MaskSelect(P[g], Not(culls))
        IN [i \in 1..Len(kept) |-> kept[Len(kept) + 1 - i]]]

\* cull_gaussians: every attribute indexed by ~culls
cull_gaussians(P, culls) == [g \in DOMAIN P |-> MaskSelect(P[g], Not(culls))]

\* ----------------------------------------------------------- refinement pass
\* the Point Store, the optimizers and max_2Dsize as the pass rewrites them
Store == [params |-> params, prim |-> prim, optim |-> optim, m2d |-> max_2Dsize,
          nextId |-> nextId]

Snap(M) == [params |-> M.params, prim |-> M.prim, optim |-> M.optim]

Event(kind, before, after, splits, dups, culls, high) ==
    [kind |-> kind, before |-> Snap(before), after |-> Snap(after),
     splits |-> splits, dups |-> dups, culls |-> culls, high |-> high]

\* identities of the rows appended for the given parent rows
Children(parents, kind, first, born) ==
    [j \in 1..Len(parents) |->
        [id |-> first + j - 1, kind |-> kind, from |-> parents[j].id,
         stepped |-> FALSE, born |-> born]]

reset_interval == config.reset_alpha_every * config.refine_every

do_densification ==
    /\ step < config.stop_split_at
    /\ step % reset_interval > num_train_data + config.refine_every

\* self.steps_since_add >= 5500 and self.postBA and self.steps_since_add < 10000
CullWindow ==
    steps_since_add >= CullDwellMin /\ postBA /\ steps_since_add < CullDwellMax

\* the densification block of refinement_after: split, duplicate, append to
\* every attribute and to max_2Dsize, extend every tracked optimizer
Densified(M, sample) ==
    LET P == M.params
        gn == xys_grad_norm.v
        vc == vis_counts.v
        nsamps == config.n_split_samples
        splits == SplitMask(P, gn, vc, M.m2d.v, config, step)
        sp == split_gaussians(P, splits, nsamps, sample)
        P1 == [P EXCEPT !["scaling"] = sp.scales]
        dups == DupMask(P1, gn, vc, config)
        du == dup_gaussians(P1, dups)
        k == Sum(splits)
        d == Sum(dups)
        O1 == dup_in_all_optim(M.optim, Where(splits), nsamps)
    IN [params |-> [g \in DOMAIN P |-> P1[g] \o sp.new[g] \o du[g]],
        prim |-> M.prim
                 \o Children(Repeat(MaskSelect(M.prim, splits), nsamps), "split",
                             M.nextId, step)
                 \o Children(MaskSelect(M.prim, dups), "dup", M.nextId + nsamps * k, step),
        optim |-> dup_in_all_optim(O1, Where(dups), 1),
        m2d |-> Some(M.m2d.v \o Fill(nsamps * k, 0) \o Fill(d, 0)),
        nextId |-> M.nextId + nsamps * k + d,
        splits |-> splits, dups |-> dups, high |-> high_grads(gn, vc, config)]

\* cull_gaussians followed by remove_from_all_optim
Culled(M, extra_cull_mask) ==
    LET culls == CullMask(variant, M.params, M.m2d, extra_cull_mask, config, step)
    IN [params |-> cull_gaussians(M.params, culls),
        prim |-> MaskSelect(M.prim, Not(culls)),
        optim |-> remove_from_all_optim(M.optim, culls),
        m2d |-> M.m2d, nextId |-> M.nextId, culls |-> culls]

\* the opacity the reset writes: clamp(max=logit(2 * cull_alpha_thresh)) in
\* the old variant, full_like(logit(0.15)) in the new one
ResetOpacity(v, o, cfg) ==
    IF v = "old" THEN Min2(o, 2 * cfg.cull_alpha_thresh) ELSE ResetValueNew

\* an opacity reset that zeroes the moments of every optimizer that has any
OpacityReset_all_moments(M) ==
    [M EXCEPT
       !.params["opacity"] = [i \in 1..Len(@) |-> ResetOpacity(variant, @[i], config)],
       !.optim = [g \in DOMAIN @ |->
                    [@[g] EXCEPT
                       !.exp_avg = [i \in 1..Len(@) |-> [@[i] EXCEPT !.v = 0]],
                       !.exp_avg_sq = [i \in 1..Len(@) |-> [@[i] EXCEPT !.v = 0]]]]]

\* the opacity reset: every opacity rewritten, the opacity optimizer's moments zeroed
OpacityReset(M) ==
    [M EXCEPT
       !.params["opacity"] = [i \in 1..Len(@) |-> ResetOpacity(variant, @[i], config)],
       !.optim["opacity"] =
           [@ EXCEPT !.exp_avg = [i \in 1..Len(@) |-> [@[i] EXCEPT !.v = 0]],
                     !.exp_avg_sq = [i \in 1..Len(@) |-> [@[i] EXCEPT !.v = 0]]]]

\* when the reset block of refinement_after runs
ResetDue ==
    IF variant = "old"
    THEN step < config.stop_split_at /\ step % reset_interval = config.refine_every
    ELSE steps_since_add % reset_interval = config.refine_every

\* when the cull block runs, given whether this pass densified
CullDue(densified) ==
    IF variant = "old"
    THEN /\ CullWindow
         /\ \/ densified
            \/ step >= config.stop_split_at /\ config.continue_cull_post_densification
    ELSE step % reset_interval > num_train_data + config.refine_every

InWarmup_never == FALSE

\* whether refinement_after returns before doing anything
InWarmup ==
    IF variant = "old" THEN step <= config.warmup_length
    ELSE ~(step >= config.warmup_length)

StatsMissing == xys_grad_norm.none \/ vis_counts.none \/ max_2Dsize.none

Commit(M) ==
    /\ params' = M.params
    /\ prim' = M.prim
    /\ optim' = M.optim
    /\ nextId' = M.nextId

\* refinement_after, run AFTER_TRAIN_ITERATION every refine_every steps
RefinementAfter ==
    /\ Running /\ pc = "stats" /\ iter % config.refine_every = 0
    /\ pc' = "refined"
    /\ \E sample \in CenteredSamples :
         LET M0 == Store
             dens == do_densification
             M1 == IF dens THEN Densified(M0, sample) ELSE M0
             e1 == IF dens
                   THEN <<Event("densify", M0, M1, M1.splits, M1.dups, <<>>, M1.high)>>
                   ELSE <<>>
             extra == IF dens /\ variant = "old"
                      THEN M1.splits \o Falses(Len(M1.prim) - Len(M0.prim))
                      ELSE Falses(Len(M1.prim))
             cull == CullDue(dens)
             M2 == IF cull THEN Culled(M1, extra) ELSE M1
             e2 == IF cull THEN <<Event("cull", M1, M2, <<>>, <<>>, M2.culls, <<>>)>>
                   ELSE <<>>
             M3 == IF ResetDue THEN OpacityReset(M2) ELSE M2
             e3 == IF ResetDue
                   THEN <<Event("reset", M2, M3, <<>>, <<>>, <<>>, <<>>)>> ELSE <<>>
         IN IF InWarmup
            THEN UNCHANGED <<params, prim, optim, nextId, xys_grad_norm, vis_counts,
                             max_2Dsize, err, last, reset_at>>
            ELSE IF dens /\ StatsMissing
            THEN /\ err' = "refinement_after: the statistics are None"
                 /\ UNCHANGED <<params, prim, optim, nextId, xys_grad_norm,
                                vis_counts, max_2Dsize, last, reset_at>>
            ELSE IF cull /\ CullAsserts(variant, M1.m2d, config, step)
            THEN /\ err' = "cull_gaussians: max_2Dsize is None"
                 /\ UNCHANGED <<params, prim, optim, nextId, xys_grad_norm,
                                vis_counts, max_2Dsize, last, reset_at>>
            ELSE /\ Len(M1.prim) <= MaxN
                 /\ Commit(M3)
                 /\ last' = e1 \o e2 \o e3
                 /\ reset_at' = IF ResetDue THEN step ELSE reset_at
                 /\ xys_grad_norm' = None
                 /\ vis_counts' = None
                 /\ max_2Dsize' = None
                 /\ UNCHANGED err
    /\ UNCHANGED <<outputs, ladder, variant, config, num_train_data, iter, ran, step, steps_since_add,
                   postBA, radii, xys_grad, deprojected_new, colors_new>>

\* a trainer that ends the iteration when refinement is not due
RefinementNotDue_ends_iteration ==
    /\ Running /\ pc = "stats" /\ iter % config.refine_every # 0
    /\ pc' = "idle"
    /\ iter' = iter + 1
    /\ ran' = ran + 1
    /\ UNCHANGED <<reset_at, outputs, ladder, variant, config, num_train_data, step, steps_since_add,
                   postBA, params, prim, nextId, optim, xys_grad_norm, vis_counts,
                   max_2Dsize, radii, xys_grad, deprojected_new, colors_new, err, last>>

\* the trainer skips a callback registered with update_every_num_iters when
\* the step is not a multiple of it
RefinementNotDue ==
    /\ Running /\ pc = "stats" /\ iter % config.refine_every # 0
    /\ pc' = "refined"
    /\ UNCHANGED <<reset_at, outputs, ladder, variant, config, num_train_data, iter, ran, step, steps_since_add,
                   postBA, params, prim, nextId, optim, xys_grad_norm, vis_counts,
                   max_2Dsize, radii, xys_grad, deprojected_new, colors_new, err, last>>

\* --------------------------------------------------------- incremental growth
\* random_quat_tensor draws
RandomQuats == {9}

\* the points and colors one growth call consumes: the first pending tensor in
\* the old variant (deprojected[0]), the stack of all pending tensors in the new
Consumed(v, pend) == IF v = "old" THEN pend[1] ELSE pend

\* the rows add_deprojected_means appends, by group
GrownRows(v, points, colors, quat, cfg) ==
    LET n == Len(points)
        c == NormalizeColors(colors)
        scale == IsoScale(IF v = "old" THEN GrowScaleOld ELSE GrowScaleNew)
        opac == IF v = "old" THEN cfg.init_opacity ELSE GrowOpacityNew
    IN [g \in TrackedGroups(v) |->
          [i \in 1..n |-> Row(v, points[i], RGB2SH(c[i]), opac, scale, quat)[g]]]

\* a growth step that leaves the statistics of the smaller store in place
GrowthClearsStats_keeps == UNCHANGED <<xys_grad_norm, vis_counts, max_2Dsize>>

\* add_deprojected_means empties the three statistics once it has appended rows
GrowthClearsStats ==
    /\ xys_grad_norm' = None
    /\ vis_counts' = None
    /\ max_2Dsize' = None

\* a growth call that restarts the growth counter although nothing is pending
GrowthSkipped_restarts ==
    /\ steps_since_add' = 0
    /\ UNCHANGED <<params, prim, optim, nextId, xys_grad_norm, vis_counts,
                   max_2Dsize, deprojected_new, colors_new, postBA, err, last>>

\* add_deprojected_means with len(deprojected) = 0: the body is skipped
GrowthSkipped ==
    UNCHANGED <<params, prim, optim, nextId, xys_grad_norm, vis_counts,
                max_2Dsize, deprojected_new, colors_new, steps_since_add,
                postBA, err, last>>

\* add_deprojected_means, run AFTER_TRAIN_ITERATION on the pending lists
AddDeprojectedMeans ==
    /\ Running /\ pc = "refined"
    /\ pc' = "idle"
    /\ iter' = iter + 1
    /\ ran' = ran + 1
    /\ IF Len(deprojected_new) = 0
       THEN GrowthSkipped
       ELSE \E quat \in RandomQuats :
            LET points == Consumed(variant, deprojected_new)
                colors == Consumed(variant, colors_new)
                num_new_points == Len(points)
                rows == GrownRows(variant, points, colors, quat, config)
                M0 == Store
                ready == \A g \in TrackedGroups(variant) :
                            optim[g].has /\ Len(optim[g].exp_avg) > 0
                M1 == [M0 EXCEPT
                         !.params = [g \in DOMAIN @ |-> @[g] \o rows[g]],
                         !.prim = @ \o [j \in 1..num_new_points |->
                                          [id |-> nextId + j - 1, kind |-> "grown",
                                           from |-> 0, stepped |-> FALSE, born |-> step]],
                         !.nextId = @ + num_new_points]
                M2 == [M1 EXCEPT
                         !.optim = [g \in DOMAIN @ |->
                                      IF g = "lerf" THEN @[g]
                                      ELSE add_new_params_to_optimizer(@[g], num_new_points,
                                                                       variant)]]
            IN /\ Len(M1.prim) <= MaxN
               /\ GrowthClearsStats
               /\ IF ready
                  THEN /\ Commit(M2)
                       /\ deprojected_new' = <<>>
                       /\ colors_new' = <<>>
                       /\ steps_since_add' = 0
                       /\ postBA' = (variant = "old")
                       /\ last' = <<Event("grow", M0, M2, <<>>, <<>>, <<>>, <<>>)>>
                       /\ UNCHANGED err
                  ELSE \* optimizer.state has no exp_avg (or no last row) to copy the
                       \* shape from: the lookup raises after the Point Store grew
                       /\ Commit(M1)
                       /\ err' = "add_new_params_to_optimizer: no moment buffers"
                       /\ UNCHANGED <<deprojected_new, colors_new, steps_since_add,
                                      postBA, last>>
    /\ UNCHANGED <<reset_at, outputs, ladder, variant, config, num_train_data, step, radii, xys_grad>>

Next ==
    \/ StepCb
    \/ Deproject
    \/ TrainIteration
    \/ AfterTrain
    \/ RefinementAfter
    \/ RefinementNotDue
    \/ AddDeprojectedMeans

Spec == Init /\ [][Next]_vars

\* ------------------------------------------------------------- viewer calls
\* scales_list has 30 entries in the program; the scan is explored on a
\* shorter ladder
LadderLen == 3

\* relevancy values get_relevancy can report for a pixel
RelLevels == {1, 2}

\* the cameras of the viewer: height and width in pixels
ViewCameras == { [height |-> 1, width |-> 2], [height |-> 2, width |-> 1] }

\* self.crop_box: not set, a box holding every point but the last, or a box
\* holding no point
CropBoxes == {"unset", "some", "empty"}

\* self.crop_box.within(self.means)
within(crop, n) == [i \in 1..n |-> crop = "some" /\ i < n]

\* what get_outputs can do for one call: the "rgb" of the dictionary returned
\* (kind "raised" when the call raised), whether self.radii was reassigned, and
\* the exception raised. r holds the radii project_gaussians would report for
\* the points of the store.
get_outputs(v, training, crop, cam, r) ==
    LET cropping == crop # "unset" /\ ~training
        empty == cropping /\ Sum(within(crop, Len(r))) = 0
        rr == IF cropping THEN MaskSelect(r, within(crop, Len(r))) ELSE r
        shown == \E i \in 1..Len(rr) : rr[i] > 0
        fallback == [kind |-> "background", height |-> cam.height, width |-> cam.width]
        image == [kind |-> "rendered", height |-> cam.height, width |-> cam.width]
        raised == [kind |-> "raised", height |-> 0, width |-> 0]
    IN IF empty
       THEN IF v = "old"
            THEN {[out |-> fallback, projected |-> FALSE, radii |-> <<>>, err |-> "none"]}
            ELSE {[out |-> raised, projected |-> FALSE, radii |-> <<>>,
                   err |-> "get_outputs: background referenced before assignment"]}
       ELSE IF ~shown
       THEN IF v = "old"
            THEN {[out |-> fallback, projected |-> TRUE, radii |-> rr, err |-> "none"]}
            ELSE \* no check of the radii: the rasterizer is called with nothing
                 \* to draw, and what it does is not fixed by this repository
                 {[out |-> fallback, projected |-> TRUE, radii |-> rr, err |-> "none"],
                  [out |-> raised, projected |-> TRUE, radii |-> rr,
                   err |-> "RasterizeGaussians: nothing to rasterize"]}
       ELSE {[out |-> image, projected |-> TRUE, radii |-> rr, err |-> "none"]}

\* a call of get_outputs from the viewer or the evaluation, between iterations
Render ==
    /\ Running /\ pc = "idle" /\ outputs = None
    /\ \E training \in BOOLEAN, crop \in CropBoxes, cam \in ViewCameras,
          seen \in BOOLEAN :
         \E o \in get_outputs(variant, training, crop, cam,
                               Fill(num_points, IF seen THEN RenderLevels.small ELSE 0)) :
            /\ outputs' = Some([training |-> training, crop_box |-> crop,
                                camera |-> cam, seen |-> seen, rgb |-> o.out])
            /\ radii' = IF o.projected THEN o.radii ELSE radii
            /\ err' = o.err
    /\ UNCHANGED <<reset_at, variant, config, num_train_data, iter, ran, pc, step,
                   steps_since_add, postBA, params, prim, nextId, optim,
                   xys_grad_norm, vis_counts, max_2Dsize, xys_grad,
                   deprojected_new, colors_new, last, ladder>>

\* the relevancy of every pixel at every scale of the ladder, for one phrase
Ladders(pixels) == [1..LadderLen -> [1..pixels -> RelLevels]]

\* the answers of image_encoder.get_relevancy explored: one or two phrases,
\* the second one with the same relevancy at every pixel
Relevancies(pixels) ==
    { p \in UNION { [1..n -> Ladders(pixels)] : n \in 1..2 } :
        Len(p) = 2 => \A i \in 1..LadderLen : \A x \in 1..pixels : p[2][i][x] = p[2][i][1] }

\* pos_prob.max()
RECURSIVE TensorMax(_)
TensorMax(t) == IF Len(t) = 1 THEN t[1] ELSE Max2(Head(t), TensorMax(Tail(t)))

\* get_max_across is entered by an evaluation render that drew an image
StartScan ==
    /\ Running /\ ladder.pc = "idle"
    /\ outputs # None /\ outputs.v.rgb.kind = "rendered" /\ ~outputs.v.training
    /\ \E p \in Relevancies(outputs.v.rgb.height * outputs.v.rgb.width) :
         ladder' = [pc |-> "scan", probs |-> p, i |-> 1,
                    n_phrases_maxs |-> [j \in 1..Len(p) |-> 0],
                    n_phrases_sims |-> [j \in 1..Len(p) |-> <<>>]]
    /\ UNCHANGED <<reset_at, outputs, variant, config, num_train_data, iter, ran, pc, step,
                   steps_since_add, postBA, params, prim, nextId, optim,
                   xys_grad_norm, vis_counts, max_2Dsize, radii, xys_grad,
                   deprojected_new, colors_new, err, last>>

\* a loop turn that also replaces the remembered map on an equal maximum
ScanScale_last_wins ==
    /\ ladder.pc = "scan" /\ ladder.i <= LadderLen
    /\ LET i == ladder.i
           better(j) == \/ ladder.n_phrases_maxs[j] = 0
                        \/ TensorMax(ladder.probs[j][i]) >= TensorMax(ladder.n_phrases_sims[j])
       IN ladder' = [ladder EXCEPT
                       !.i = i + 1,
                       !.n_phrases_maxs = [j \in 1..Len(@) |-> IF better(j) THEN i ELSE @[j]],
                       !.n_phrases_sims = [j \in 1..Len(@) |->
                                             IF better(j) THEN ladder.probs[j][i] ELSE @[j]]]
    /\ UNCHANGED <<reset_at, outputs, variant, config, num_train_data, iter, ran, pc, step,
                   steps_since_add, postBA, params, prim, nextId, optim,
                   xys_grad_norm, vis_counts, max_2Dsize, radii, xys_grad,
                   deprojected_new, colors_new, err, last>>

\* one turn of the loop over scales_list in get_max_across, with preset_scales
\* None as every caller leaves it: for every phrase the map of this scale
\* replaces the remembered one if its greatest value is greater
ScanScale ==
    /\ ladder.pc = "scan" /\ ladder.i <= LadderLen
    /\ LET i == ladder.i
           better(j) == \/ ladder.n_phrases_maxs[j] = 0
                        \/ TensorMax(ladder.probs[j][i]) > TensorMax(ladder.n_phrases_sims[j])
       IN ladder' = [ladder EXCEPT
                       !.i = i + 1,
                       !.n_phrases_maxs = [j \in 1..Len(@) |-> IF better(j) THEN i ELSE @[j]],
                       !.n_phrases_sims = [j \in 1..Len(@) |->
                                             IF better(j) THEN ladder.probs[j][i] ELSE @[j]]]
    /\ UNCHANGED <<reset_at, outputs, variant, config, num_train_data, iter, ran, pc, step,
                   steps_since_add, postBA, params, prim, nextId, optim,
                   xys_grad_norm, vis_counts, max_2Dsize, radii, xys_grad,
                   deprojected_new, colors_new, err, last>>

\* get_max_across returns torch.stack(n_phrases_sims), torch.Tensor(n_phrases_maxs)
ReturnMax ==
    /\ ladder.pc = "scan" /\ ladder.i > LadderLen
    /\ ladder' = [ladder EXCEPT !.pc = "done"]
    /\ UNCHANGED <<reset_at, outputs, variant, config, num_train_data, iter, ran, pc, step,
                   steps_since_add, postBA, params, prim, nextId, optim,
                   xys_grad_norm, vis_counts, max_2Dsize, radii, xys_grad,
                   deprojected_new, colors_new, err, last>>

\* the viewer's calls on a model that is seeded or trained and not training
ViewerScenarios ==
    { <<Start(0, 0, FALSE), Schedule(1, 50000, 50000, FALSE)>>,
      <<Start(5497, 5496, TRUE), Schedule(1, 50000, 50000, FALSE)>> }

ViewerInit == Setup(ViewerScenarios)

ViewerNext ==
    \/ Render
    \/ StartScan
    \/ ScanScale
    \/ ReturnMax

ViewerSpec == ViewerInit /\ [][ViewerNext]_vars

\* ------------------------------------------------- reset followed by a cull
\* values of cull_alpha_thresh a configuration may carry, in permille; 85 and
\* 100 are the defaults of the two variants
CullAlphaThresholds == {50, 85, 100, 150, 200, 400}

\* activated opacities of the rows when the reset runs, in permille
OpacityLevels == {40, 90, 120, 180, 300, 900}

\* a trained model at a step where the reset block runs (step % reset_interval
\* = refine_every), for any threshold and any opacities
ResetInit ==
    /\ variant \in {"old", "new"}
    /\ num_train_data \in NumTrainData
    /\ \E a \in CullAlphaThresholds, o \in [1..3 -> OpacityLevels] :
         LET sched == Schedule(1, 50000, 50000, FALSE)
             thr == [DefaultThresholds(variant) EXCEPT !.cull_alpha_thresh = a]
             rows == TrainedRows(variant)
             n == Len(rows)
             mom == [i \in 1..n |-> [own |-> i, v |-> 1]]
         IN /\ config = [f \in (DOMAIN sched) \cup (DOMAIN thr) |->
                            IF f \in DOMAIN sched THEN sched[f] ELSE thr[f]]
            /\ params = [ParamsOf(variant, rows) EXCEPT !["opacity"] = o]
            /\ prim = [i \in 1..n |-> [id |-> i, kind |-> "seed", from |-> 0,
                                       stepped |-> TRUE, born |-> 0]]
            /\ nextId = n + 1
            /\ optim = [g \in get_gaussian_param_groups(variant) |->
                          IF g = "lerf" THEN LerfState
                          ELSE [has |-> TRUE, exp_avg |-> mom, exp_avg_sq |-> mom]]
    /\ iter = 2
    /\ step = 2
    /\ steps_since_add = 2
    /\ postBA = FALSE
    /\ ran = 0
    /\ pc = "stats"
    /\ xys_grad_norm = None
    /\ vis_counts = None
    /\ max_2Dsize = None
    /\ radii = <<>>
    /\ xys_grad = None
    /\ deprojected_new = <<>>
    /\ colors_new = <<>>
    /\ err = "none"
    /\ last = <<>>
    /\ reset_at = -1
    /\ outputs = None
    /\ ladder = NoScan

\* the reset block of refinement_after on its own
ResetNow ==
    /\ pc = "stats" /\ last = <<>> /\ ResetDue
    /\ LET M0 == Store
           M1 == OpacityReset(M0)
       IN /\ Commit(M1)
          /\ last' = <<Event("reset", M0, M1, <<>>, <<>>, <<>>, <<>>)>>
          /\ reset_at' = step
    /\ UNCHANGED <<outputs, ladder, variant, config, num_train_data, iter, ran, pc, step,
                   steps_since_add, postBA, xys_grad_norm, vis_counts, max_2Dsize,
                   radii, xys_grad, deprojected_new, colors_new, err>>

\* cull_gaussians called on the opacities the reset has just written, with no
\* extra mask
CullNow ==
    /\ pc = "stats" /\ Len(last) = 1
    /\ LET M1 == Store
           M2 == Culled(M1, Falses(Len(M1.prim)))
       IN /\ Commit(M2)
          /\ last' = last \o <<Event("cull", M1, M2, <<>>, <<>>, M2.culls, <<>>)>>
    /\ pc' = "refined"
    /\ UNCHANGED <<reset_at, outputs, ladder, variant, config, num_train_data, iter, ran,
                   step, steps_since_add, postBA, xys_grad_norm, vis_counts,
                   max_2Dsize, radii, xys_grad, deprojected_new, colors_new, err>>

ResetNext ==
    \/ ResetNow
    \/ CullNow

ResetSpec == ResetInit /\ [][ResetNext]_vars

\* ------------------------------------------------------------------ properties
\* the events of the last callback
Events == {last[i] : i \in 1..Len(last)}

\* the tracked optimizers that hold moment buffers in a snapshot or a state
Tracked(opt) == {g \in TrackedGroups(variant) : opt[g].has}

\* C1: at every callback boundary all per-attribute arrays of the Point Store
\* have the same length N, and the first- and second-moment buffers of every
\* tracked optimizer have length N
C1_SameLength ==
    /\ \A g \in TrackedGroups(variant) : Len(params[g]) = num_points
    /\ \A g \in Tracked(optim) :
         Len(optim[g].exp_avg) = num_points /\ Len(optim[g].exp_avg_sq) = num_points

\* a pass of the trained model split, duplicated or both and culled, on a
\* store that a growth event had extended
C1_Witness ==
    /\ pc = "refined" /\ Len(last) >= 2
    /\ last[1].kind = "densify" /\ Sum(last[1].splits) > 0
    /\ last[2].kind = "cull" /\ Sum(last[2].culls) > 0
    /\ Tracked(optim) = TrackedGroups(variant)
    /\ \E i \in 1..Len(prim) : prim[i].kind = "grown"

\* C2: for every index i the moment row i of every tracked optimizer belongs
\* to the primitive of Point Store row i: a row that went through an optimizer
\* step keeps its own moment row through every cull, a row appended since the
\* last optimizer step holds a freshly initialised moment row
C2_MomentsAligned ==
    \A g \in Tracked(optim) : \A i \in 1..Len(prim) :
        /\ i <= Len(optim[g].exp_avg) /\ i <= Len(optim[g].exp_avg_sq)
        /\ LET owner == IF prim[i].stepped THEN prim[i].id ELSE 0
           IN /\ optim[g].exp_avg[i].own = owner
              /\ optim[g].exp_avg_sq[i].own = owner
              /\ (~prim[i].stepped =>
                    /\ optim[g].exp_avg[i].v \in {DupMomentFill, GrowMomentFill(variant)}
                    /\ optim[g].exp_avg_sq[i].v \in {DupMomentFill, GrowMomentFill(variant)})

\* a cull removed a row in front of a survivor that holds trained moments, in
\* a store that also holds rows appended in the same pass
C2_Witness ==
    /\ pc = "refined"
    /\ Tracked(optim) = TrackedGroups(variant)
    /\ \E e \in Events :
         /\ e.kind = "cull"
         /\ \E i, j \in 1..Len(e.culls) :
              /\ i < j /\ e.culls[i] /\ ~e.culls[j]
              /\ e.before.prim[j].stepped
              /\ e.before.prim[j].id \in ids
    /\ \E i \in 1..Len(prim) : ~prim[i].stepped

\* the Point Store a refinement pass ends with
PassEnd == last[Len(last)].after

\* C3: a refinement pass that splits k points into n children each appends
\* exactly k*n rows for them and removes the k parents within the same pass
C3_SplitNet ==
    (last # <<>> /\ last[1].kind = "densify" /\ Sum(last[1].splits) > 0) =>
        LET e == last[1]
            k == Sum(e.splits)
            n == config.n_split_samples
            endIds == {PassEnd.prim[i].id : i \in 1..Len(PassEnd.prim)}
            removed == {i \in 1..Len(e.splits) :
                          e.splits[i] /\ e.before.prim[i].id \notin endIds}
        IN /\ Len(e.after.prim) - Len(e.before.prim) - Sum(e.dups) = k * n
           /\ Cardinality(removed) = k

\* C4: at the start of a training iteration no split parent coexists with
\* its own children
C4_NoParentWithChildren ==
    pc = "stepped" =>
        \A i \in 1..Len(prim) : prim[i].kind = "split" => prim[i].from \notin ids

\* C5: in every densifying pass the split mask and the duplicate mask are
\* disjoint and together cover exactly the points with a high gradient
C5_SplitDupPartition ==
    \A e \in Events : e.kind = "densify" =>
        \A i \in 1..Len(e.high) :
            /\ e.high[i] <=> (e.splits[i] \/ e.dups[i])
            /\ ~(e.splits[i] /\ e.dups[i])

\* C6: duplicating k selected points appends exactly k rows, each a verbatim
\* copy of the full attribute row of a selected point, and removes no row
C6_DupAppendsCopies ==
    \A e \in Events : e.kind = "densify" =>
        LET n0 == Len(e.before.prim)
            k == Sum(e.splits) * config.n_split_samples
            d == Sum(e.dups)
            sel == Where(e.dups)
        IN /\ Len(e.after.prim) = n0 + k + d
           /\ \A i \in 1..n0 : e.after.prim[i] = e.before.prim[i]
           /\ \A g \in TrackedGroups(variant) :
                /\ Len(e.after.params[g]) = n0 + k + d
                /\ \A j \in 1..d :
                     e.after.params[g][n0 + k + j] = e.after.params[g][sel[j]]

\* a pass duplicated a point that is not the first row of the store
C6_Witness ==
    /\ pc = "refined"
    /\ \E e \in Events :
         /\ e.kind = "densify"
         /\ \E i \in 2..Len(e.dups) : e.dups[i] /\ ~e.splits[i]

\* C7: a refinement pass that runs before the minimum dwell time since the
\* last growth event has elapsed removes none of the grown points
C7_DwellProtectsGrown ==
    \A e \in Events :
        (e.kind \in {"densify", "cull", "reset"} /\ steps_since_add < CullDwellMin) =>
            \A i \in 1..Len(e.before.prim) :
                e.before.prim[i].kind = "grown" =>
                    \E j \in 1..Len(e.after.prim) :
                        e.after.prim[j].id = e.before.prim[i].id

\* C8: a cull whose mask selects no row leaves the Point Store and every
\* tracked optimizer's moment buffers as they were
C8_EmptyCullIdentity ==
    \A e \in Events : (e.kind = "cull" /\ Sum(e.culls) = 0) =>
        /\ e.after.params = e.before.params
        /\ \A g \in TrackedGroups(variant) : e.after.optim[g] = e.before.optim[g]

\* a cull with an empty mask ran on a store whose optimizers hold trained moments
C8_Witness ==
    /\ pc = "refined"
    /\ \E e \in Events :
         /\ e.kind = "cull" /\ Sum(e.culls) = 0 /\ Len(e.culls) >= 3
         /\ Tracked(e.before.optim) = TrackedGroups(variant)
         /\ \E i \in 1..Len(e.culls) : e.before.optim["xyz"].exp_avg[i].v = 1

\* the number of survivors among the first i rows
Rank(culls, i) == Cardinality({j \in 1..i : ~culls[j]})

\* C9: the rows that survive a cull keep their relative order and their
\* values, in the Point Store and in every tracked optimizer's moment buffers
C9_OrderPreserved ==
    \A e \in Events : e.kind = "cull" =>
        LET keep == {i \in 1..Len(e.culls) : ~e.culls[i]}
        IN \A g \in TrackedGroups(variant) :
             /\ Len(e.after.params[g]) = Cardinality(keep)
             /\ \A i \in keep :
                  e.after.params[g][Rank(e.culls, i)] = e.before.params[g][i]
             /\ e.before.optim[g].has =>
                  /\ Len(e.after.optim[g].exp_avg) = Cardinality(keep)
                  /\ Len(e.after.optim[g].exp_avg_sq) = Cardinality(keep)
                  /\ \A i \in keep :
                       /\ e.after.optim[g].exp_avg[Rank(e.culls, i)]
                            = e.before.optim[g].exp_avg[i]
                       /\ e.after.optim[g].exp_avg_sq[Rank(e.culls, i)]
                            = e.before.optim[g].exp_avg_sq[i]

\* a cull removed a row in front of two survivors
C9_Witness ==
    /\ pc = "refined"
    /\ \E e \in Events :
         /\ e.kind = "cull"
         /\ Tracked(e.before.optim) = TrackedGroups(variant)
         /\ \E i, j, k \in 1..Len(e.culls) :
              i < j /\ j < k /\ e.culls[i] /\ ~e.culls[j] /\ ~e.culls[k]

\* C10: appending m rows to the Point Store, by growth or by split and
\* duplicate, extends both moment buffers of every tracked optimizer by
\* exactly m rows and leaves the rows that existed before unchanged
C10_AppendExtendsMoments ==
    \A e \in Events : e.kind \in {"grow", "densify"} =>
        LET m == Len(e.after.params["xyz"]) - Len(e.before.params["xyz"])
        IN \A g \in Tracked(e.before.optim) :
             LET b == e.before.optim[g]
                 a == e.after.optim[g]
             IN /\ Len(a.exp_avg) = Len(b.exp_avg) + m
                /\ Len(a.exp_avg_sq) = Len(b.exp_avg_sq) + m
                /\ SubSeq(a.exp_avg, 1, Len(b.exp_avg)) = b.exp_avg
                /\ SubSeq(a.exp_avg_sq, 1, Len(b.exp_avg_sq)) = b.exp_avg_sq

\* a growth event appended rows to a store whose optimizers hold trained moments
C10_Witness ==
    /\ pc = "idle"
    /\ \E e \in Events :
         /\ e.kind = "grow"
         /\ Len(e.after.params["xyz"]) > Len(e.before.params["xyz"])
         /\ Tracked(e.before.optim) = TrackedGroups(variant)
         /\ \E i \in 1..Len(e.before.prim) : e.before.optim["xyz"].exp_avg[i].v = 1

\* the moment rows an event appended to a buffer
Appended(before, after) == SubSeq(after, Len(before) + 1, Len(after))

\* C11: the moment rows created for split or duplicated children are filled
\* with zero, the moment rows created for grown points with a nonzero
\* constant, in both buffers of every tracked optimizer
C11_FillPolicy ==
    \A e \in Events : e.kind \in {"grow", "densify"} =>
        \A g \in Tracked(e.before.optim) :
            LET avg == Appended(e.before.optim[g].exp_avg, e.after.optim[g].exp_avg)
                sq == Appended(e.before.optim[g].exp_avg_sq, e.after.optim[g].exp_avg_sq)
            IN /\ \A j \in 1..Len(avg) :
                    IF e.kind = "densify" THEN avg[j].v = 0 ELSE avg[j].v # 0
               /\ \A j \in 1..Len(sq) :
                    IF e.kind = "densify" THEN sq[j].v = 0 ELSE sq[j].v # 0

\* the number of points in the pending list: its tensors hold several points
\* each in the old variant, one point each in the new variant
RECURSIVE PendingPoints(_, _)
PendingPoints(v, pend) ==
    IF pend = <<>> THEN 0
    ELSE (IF v = "old" THEN Len(Head(pend)) ELSE 1) + PendingPoints(v, Tail(pend))

\* a growth event that ran to its end on a non-empty pending list
GrowthStep ==
    /\ pc = "refined" /\ pc' = "idle"
    /\ deprojected_new # <<>> /\ err' = "none"

\* C12: a growth event with non-empty pending input appends one primitive for
\* every pending point and then empties the pending lists
C12_GrowthAppendsAll ==
    [][GrowthStep =>
         /\ Len(params'["xyz"]) = Len(params["xyz"]) + PendingPoints(variant, deprojected_new)
         /\ deprojected_new' = <<>> /\ colors_new' = <<>>]_vars

\* C13: a growth event with non-empty input clears the accumulated statistics
\* and sets steps_since_add to 0; every training iteration started afterwards
\* adds one to it and nothing else changes it
C13_GrowthRestartsCount ==
    [][IF GrowthStep
       THEN /\ xys_grad_norm' = None /\ vis_counts' = None /\ max_2Dsize' = None
            /\ steps_since_add' = 0
       ELSE IF pc = "idle" /\ pc' = "stepped"
       THEN steps_since_add' = steps_since_add + 1
       ELSE steps_since_add' = steps_since_add]_vars

\* the second iteration since a growth event has started
C13_Witness ==
    /\ pc = "stepped" /\ steps_since_add = 2
    /\ \E i \in 1..Len(prim) : prim[i].kind = "grown" /\ prim[i].born = step - 2

\* C14: a structural mutation that stops on a precondition violation leaves
\* the point store and every optimizer buffer exactly as they were before the
\* operation began
C14_AbortRestores ==
    [][(err = "none" /\ err' # "none" /\ pc = "refined")
         => (params' = params /\ optim' = optim)]_vars

\* a refinement pass, and a completed statistics update, during warmup
WarmupPass == pc = "stats" /\ pc' = "refined" /\ step < config.warmup_length

WarmupStats ==
    /\ pc = "trained" /\ pc' = "stats" /\ step < config.warmup_length
    /\ err' = "none"

\* the statistics update counted the frame just rendered
Accumulated ==
    /\ ~xys_grad_norm'.none /\ ~vis_counts'.none /\ ~max_2Dsize'.none
    /\ \A i \in 1..Len(radii) : radii[i] > 0 =>
          /\ vis_counts'.v[i] = IF vis_counts.none THEN 1 ELSE vis_counts.v[i] + 1
          /\ max_2Dsize'.v[i] =
               Max2(IF max_2Dsize.none THEN 0 ELSE max_2Dsize.v[i], ScreenSize(radii[i]))

LatePass == pc = "stats" /\ pc' = "refined" /\ step >= config.stop_split_at

\* C16: once step >= stop_split_at a refinement pass appends no row and resets
\* no opacity; it removes rows or leaves the point store as it was
C16_CutoffFinal ==
    [][LatePass =>
         /\ \A k \in 1..Len(last') : last'[k].kind = "cull"
         /\ \A i \in 1..Len(prim') : \E j \in 1..Len(prim) :
               /\ prim'[i].id = prim[j].id
               /\ params'["opacity"][i] = params["opacity"][j]]_vars

\* an invocation of refinement_after that returned normally
PassReturned ==
    /\ pc = "stats" /\ pc' = "refined" /\ iter % config.refine_every = 0
    /\ err' = "none"

\* C17: when an invocation of the refinement callback returns, the gradient-norm
\* sum, the visibility counts and the max 2D size are all empty
C17_PassClearsStats ==
    [][PassReturned =>
         xys_grad_norm'.none /\ vis_counts'.none /\ max_2Dsize'.none]_vars

\* scale row c is scale row s divided by size_fac on axis a
OneShrink(c, s, a) ==
    c.m[a] * Pow(size_fac_den, c.k) * Pow(size_fac_num, s.k + 1)
        = s.m[a] * Pow(size_fac_den, s.k + 1) * Pow(size_fac_num, c.k)

\* C18: after a split, the scale of a split point and of each of its n
\* children is the pre-split scale divided by 1.6 on every axis, and the scale
\* of a point not selected for split is unchanged
C18_SplitShrinksOnce ==
    \A e \in Events : e.kind = "densify" =>
        LET old == e.before.params["scaling"]
            new == e.after.params["scaling"]
            n0 == Len(old)
            K == Sum(e.splits)
        IN \A i \in 1..n0 :
             IF e.splits[i]
             THEN /\ \A a \in 1..3 : OneShrink(new[i], old[i], a)
                  /\ \A r \in 1..config.n_split_samples : \A a \in 1..3 :
                        OneShrink(new[n0 + (r - 1) * K + Sum(SubSeq(e.splits, 1, i))],
                                  old[i], a)
             ELSE new[i] = old[i]

\* a densification has split one point and left another point alone
C18_Witness ==
    \E e \in Events :
        /\ e.kind = "densify"
        /\ \E i, j \in 1..Len(e.splits) : e.splits[i] /\ ~e.splits[j]

\* the greatest relevancy of pixel x for phrase j over the scales of the ladder
PixelMax(j, x) ==
    LET at == [i \in 1..LadderLen |-> ladder.probs[j][i][x]] IN TensorMax(at)

\* C19: when the scan returns, every scale has been evaluated, the relevancy
\* returned for each pixel is the greatest relevancy of that pixel over the
\* scales of the ladder, and the remembered scale attains it at that pixel
C19_PerPixelMax ==
    ladder.pc = "done" =>
        /\ ladder.i = LadderLen + 1
        /\ \A j \in 1..Len(ladder.probs) :
              \A x \in 1..Len(ladder.n_phrases_sims[j]) :
                 /\ ladder.n_phrases_sims[j][x] = PixelMax(j, x)
                 /\ ladder.probs[j][ladder.n_phrases_maxs[j]][x] = PixelMax(j, x)

\* a call of get_outputs has returned or raised, with no primitive visible or
\* with a crop box in force that holds no point
EmptyRender ==
    /\ outputs = None /\ outputs' # None
    /\ \/ ~outputs'.v.seen
       \/ outputs'.v.crop_box = "empty" /\ ~outputs'.v.training

\* C20: a render call with no visible primitive, or with a crop box that
\* selects no point, raises nothing, returns a background image of the
\* camera's height and width, and changes neither the point store nor an
\* optimizer buffer nor the accumulated statistics
C20_EmptyRenderFallsBack ==
    [][EmptyRender =>
         /\ err' = "none"
         /\ outputs'.v.rgb = [kind |-> "background",
                              height |-> outputs'.v.camera.height,
                              width |-> outputs'.v.camera.width]
         /\ params' = params /\ optim' = optim
         /\ xys_grad_norm' = xys_grad_norm /\ vis_counts' = vis_counts
         /\ max_2Dsize' = max_2Dsize]_vars

\* the order in which the trainer runs the registered callbacks
CallbackOrder ==
    { <<"idle", "stepped">>, <<"stepped", "trained">>, <<"trained", "stats">>,
      <<"stats", "refined">>, <<"refined", "idle">> }

\* every attribute array and every allocated moment buffer has one row per point
StoreWhole ==
    /\ \A g \in DOMAIN params : Len(params[g]) = num_points
    /\ \A g \in Tracked(optim) :
          Len(optim[g].exp_avg) = num_points /\ Len(optim[g].exp_avg_sq) = num_points

InDensifyWindow ==
    /\ config.warmup_length <= step /\ step < config.stop_split_at
    /\ step % (config.reset_alpha_every * config.refine_every)
          > num_train_data + config.refine_every

\* C22: a refinement pass densifies if and only if
\* warmup_length <= step < stop_split_at and step mod
\* (reset_alpha_every * refine_every) > num_train_data + refine_every
C22_DensifyIffInWindow ==
    [][PassReturned =>
         ((\E k \in 1..Len(last') : last'[k].kind = "densify") <=> InDensifyWindow)]_vars

\* the rows of the store a cull started from that the store it ended with lacks
Removed(e) ==
    [i \in 1..Len(e.before.prim) |->
        \A j \in 1..Len(e.after.prim) : e.after.prim[j].id # e.before.prim[i].id]

\* the criteria of a cull, on the store and the statistics it started from:
\* m2d is the max 2D size before the pass, 0 for rows appended by the pass
ShouldCull(e, first, i) ==
    LET m2d == IF ~max_2Dsize.none /\ i <= Len(max_2Dsize.v) THEN max_2Dsize.v[i] ELSE 0
    IN \/ e.before.params["opacity"][i] < config.cull_alpha_thresh
       \/ /\ step > config.refine_every * config.reset_alpha_every
          /\ ExpScaleMaxGt(e.before.params["scaling"][i], config.cull_scale_thresh)
       \/ /\ step < config.stop_screen_size_at
          /\ m2d > config.cull_screen_size
       \/ /\ variant = "old" /\ first.kind = "densify"
          /\ i <= Len(first.splits) /\ first.splits[i]

\* C23: a cull removes exactly the rows that are too transparent, or too large
\* once the step is past reset_alpha_every * refine_every, or too large on
\* screen while the step is below stop_screen_size_at, or in the mask of split
\* parents the caller passes
C23_CullExactly ==
    [][PassReturned =>
         \A k \in 1..Len(last') : last'[k].kind = "cull" =>
            \A i \in 1..Len(last'[k].before.prim) :
               Removed(last'[k])[i] <=> ShouldCull(last'[k], last'[1], i)]_vars

\* steps_since_add has been incremented at every step and never set back to 0
NeverGrown == steps_since_add = step + 1

\* C24: a refinement pass removes no row when steps_since_add >= 10000, or
\* before the minimum dwell time of 5500 steps, or when no growth event has
\* occurred
C24_CullOnlyInWindow ==
    [][(/\ PassReturned
        /\ \/ steps_since_add >= CullDwellMax
           \/ steps_since_add < CullDwellMin
           \/ NeverGrown)
         => \A i \in 1..Len(prim) : \E j \in 1..Len(prim') : prim'[j].id = prim[i].id]_vars

\* C25: at step >= stop_split_at a refinement pass removes rows only if
\* continue_cull_post_densification is set, and changes neither the point
\* store nor an optimizer buffer if it is not set
C25_CullOnlyNeedsFlag ==
    [][(PassReturned /\ step >= config.stop_split_at
          /\ ~config.continue_cull_post_densification)
         => (params' = params /\ optim' = optim /\ prim' = prim)]_vars

\* the refinement pass reset the opacities
DidReset == \E k \in 1..Len(last') : last'[k].kind = "reset"

\* the refinement cycle of a step, counted within the current period of
\* reset_alpha_every cycles
CycleInPeriod == (step \div config.refine_every) % config.reset_alpha_every

\* C26: a refinement pass resets the opacities only when
\* warmup_length <= step < stop_split_at, and there in exactly one of every
\* reset_alpha_every consecutive refinement cycles (the second of each period)
C26_ResetOncePerPeriod ==
    [][PassReturned =>
         /\ DidReset => (config.warmup_length <= step /\ step < config.stop_split_at)
         /\ (config.warmup_length < step /\ step < config.stop_split_at)
               => (DidReset <=> CycleInPeriod = 1)]_vars

\* the greatest opacity a reset leaves: twice cull_alpha_thresh in the old
\* variant, 0.15 in the new one
ResetCap == IF variant = "old" THEN 2 * config.cull_alpha_thresh ELSE ResetValueNew

\* C27: an opacity reset leaves every opacity at or below the reset constant
\* and both moment buffers of the opacity optimizer at zero; the population,
\* every other attribute and the moment buffers of every other optimizer are
\* as before
C27_ResetTouchesOpacityOnly ==
    \A e \in Events : e.kind = "reset" =>
        /\ Len(e.after.prim) = Len(e.before.prim)
        /\ \A i \in 1..Len(e.after.params["opacity"]) :
              e.after.params["opacity"][i] <= ResetCap
        /\ \A i \in 1..Len(e.after.optim["opacity"].exp_avg) :
              /\ e.after.optim["opacity"].exp_avg[i].v = 0
              /\ e.after.optim["opacity"].exp_avg_sq[i].v = 0
        /\ \A g \in DOMAIN e.before.params :
              g # "opacity" => e.after.params[g] = e.before.params[g]
        /\ \A g \in DOMAIN e.before.optim :
              g # "opacity" => e.after.optim[g] = e.before.optim[g]

\* a reset has lowered an opacity and cleared opacity moments that were not zero
C27_Witness ==
    \E e \in Events :
        /\ e.kind = "reset"
        /\ \E i \in 1..Len(e.before.params["opacity"]) :
              /\ e.before.params["opacity"][i] > ResetCap
              /\ e.before.optim["opacity"].exp_avg[i].v # 0


\* the set of rows of a pass changed: some row was added or removed
PopulationChanged == {prim'[j].id : j \in 1..Len(prim')} # {prim[i].id : i \in 1..Len(prim)}

\* C28: no refinement pass both resets the opacities and adds or removes rows,
\* and a pass that adds or removes rows comes more than num_train_data
\* training iterations after the most recent opacity reset
C28_RowsChangeAfterFullSweep ==
    [][PassReturned =>
         /\ ~(DidReset /\ PopulationChanged)
         /\ (PopulationChanged /\ reset_at >= 0) => step - reset_at > num_train_data]_vars

\* a statistic is empty or has one entry per row of the store
PerRow(stat) == stat.none \/ Len(stat.v) = num_points

\* C29: at every callback boundary each accumulated statistic is empty or has
\* one entry per row of the store, and no statistics update meets statistics
\* of another size than the population just rendered
C29_StatsMatchStore ==
    /\ PerRow(xys_grad_norm) /\ PerRow(vis_counts) /\ PerRow(max_2Dsize)
    /\ err # "after_train: mask and statistics differ in shape"

\* statistics accumulated over several iterations while the store holds rows
\* appended since the start
C29_Witness ==
    /\ pc = "stats" /\ err = "none"
    /\ ~xys_grad_norm.none /\ ~max_2Dsize.none
    /\ \E i \in 1..Len(vis_counts.v) : vis_counts.v[i] > 1
    /\ \E i \in 1..Len(prim) : prim[i].kind # "seed"

\* C30: the assertions on the accumulated statistics never fail: neither the
\* one at the entry of densification nor the one of the screen-size criterion
\* of a cull, cull-only mode after stop_split_at included
C30_StatAssertionsHold ==
    err \notin {"refinement_after: the statistics are None",
                "cull_gaussians: max_2Dsize is None"}

\* the entry of a statistic for row i, an empty statistic counting as 0
StatOf(stat, i) == IF stat.none THEN 0 ELSE stat.v[i]

\* after_train ran its update on the frame just rendered
StatsUpdated ==
    /\ pc = "trained" /\ pc' = "stats" /\ err' = "none"
    /\ ~vis_counts'.none
    /\ ~(variant = "old" /\ step >= config.stop_split_at)

\* row i keeps its three accumulated statistics over this step
StatsKept(i) ==
    /\ StatOf(xys_grad_norm', i) = StatOf(xys_grad_norm, i)
    /\ StatOf(vis_counts', i) = StatOf(vis_counts, i)
    /\ StatOf(max_2Dsize', i) = StatOf(max_2Dsize, i)

\* C31: in every statistics update, the first of a window included, a point
\* of radius 0 in the current frame keeps its accumulated gradient norm, its
\* visibility count and its max 2D size
C31_HiddenContributesNothing ==
    [][StatsUpdated => \A i \in 1..Len(radii) : radii[i] = 0 => StatsKept(i)]_vars

\* what the frame just rendered contributes for row i
FrameGrad(i) == IF radii[i] > 0 THEN xys_grad.v[i] ELSE 0
FrameSeen(i) == IF radii[i] > 0 THEN 1 ELSE 0
FrameSize(i) == IF radii[i] > 0 THEN ScreenSize(radii[i]) ELSE 0

\* the update adds exactly the contribution of the frame just rendered
AccumulatesFrame ==
    \A i \in 1..Len(radii) :
        /\ StatOf(xys_grad_norm', i) = StatOf(xys_grad_norm, i) + FrameGrad(i)
        /\ StatOf(vis_counts', i) = StatOf(vis_counts, i) + FrameSeen(i)
        /\ StatOf(max_2Dsize', i) = Max2(StatOf(max_2Dsize, i), FrameSize(i))

\* a refinement pass or a growth event ends the window: the statistics are empty
WindowEnds ==
    (PassReturned \/ GrowthStep)
        => (xys_grad_norm'.none /\ vis_counts'.none /\ max_2Dsize'.none)

\* C32: the statistics a refinement pass reads are, per point, the sum of the
\* gradient norms, the number and the largest normalised radius of the frames
\* of the current window in which the point was visible: every update adds the
\* contribution of its frame and nothing else, and every refinement pass and
\* growth event starts a new window from empty statistics
C32_StatsAreWindowSums ==
    [][(StatsUpdated => AccumulatesFrame) /\ WindowEnds]_vars

\* every tracked optimizer holds moment buffers: an optimizer step was taken
MomentsExist == \A g \in TrackedGroups(variant) : optim[g].has

\* C33: a split, duplicate, cull or growth append happens only after at least
\* one optimizer step, so the moment buffers of every tracked optimizer exist
\* when they are resized
C33_MutationAfterOptimizerStep ==
    [][PopulationChanged => MomentsExist]_vars


\* the optimizer state of the 'lerf' parameters is the same after the step
LerfKept == optim'["lerf"] = optim["lerf"]

\* C34: no growth append, split, duplicate, cull or opacity reset resizes or
\* modifies the optimizer state of the 'lerf' parameters
C34_LerfStateUntouched ==
    [][(pc \in {"stats", "refined"}) => LerfKept]_vars

\* rows were grown, densified and culled and the opacities reset, and the
\* 'lerf' optimizer state is the one the last optimizer step left
C34_Witness ==
    /\ err = "none" /\ reset_at >= 0
    /\ optim["lerf"] = LerfState
    /\ \E i, j \in 1..Len(prim) : prim[i].kind = "grown" /\ prim[j].kind \in {"split", "dup"}
    /\ \E k \in 1..Len(last) : last[k].kind = "cull" /\ \E i \in 1..Len(last[k].culls) : last[k].culls[i]

\* a growth call that finds nothing pending
EmptyGrowth == pc = "refined" /\ pc' = "idle" /\ deprojected_new = <<>>

\* C35: a growth call with an empty pending list changes neither the Point
\* Store, nor any optimizer buffer, nor the statistics, nor steps_since_add
C35_EmptyGrowthIsNoOp ==
    [][EmptyGrowth => UNCHANGED <<params, prim, optim, xys_grad_norm, vis_counts,
                                  max_2Dsize, steps_since_add, postBA>>]_vars

\* an iteration ended without growth while statistics were accumulated and
\* the growth counter was running since an earlier growth event
C35_Witness ==
    /\ pc = "idle" /\ err = "none" /\ ran >= 1
    /\ steps_since_add >= 1 /\ ~vis_counts.none
    /\ \E i \in 1..Len(prim) : prim[i].kind = "grown"

\* the training render of this iteration saw no primitive and returned the
\* background before any gradient was retained
FallbackRendered ==
    /\ pc = "trained" /\ err = "none"
    /\ xys_grad.none
    /\ \A i \in 1..Len(radii) : radii[i] = 0

\* C36: after a training render that returned the background fallback, the
\* statistics update of the same iteration raises nothing and leaves the
\* gradient-norm sum, the visibility counts and the max 2D size unchanged
C36_FallbackThenStatsQuiet ==
    [][(FallbackRendered /\ pc' = "stats")
         => /\ err' = "none"
            /\ UNCHANGED <<xys_grad_norm, vis_counts, max_2Dsize>>]_vars

\* the greatest relevancy of phrase j at ladder scale k
ScaleMax(j, k) == TensorMax(ladder.probs[j][k])

\* C37: for each phrase the ladder scan returns the relevancy map of one
\* ladder scale; that scale's greatest relevancy is at least that of every
\* other scale, and it is the first scale of the ladder that attains it
C37_FirstBestScale ==
    ladder.pc = "done" =>
        \A j \in 1..Len(ladder.probs) :
            LET best == ladder.n_phrases_maxs[j]
            IN /\ best \in 1..LadderLen
               /\ ladder.n_phrases_sims[j] = ladder.probs[j][best]
               /\ \A k \in 1..LadderLen : ScaleMax(j, best) >= ScaleMax(j, k)
               /\ \A k \in 1..(best - 1) : ScaleMax(j, k) < ScaleMax(j, best)

\* a finished scan in which two scales with different maps attain the same
\* greatest relevancy and the earlier one, not the first of the ladder, is kept
C37_Witness ==
    /\ ladder.pc = "done"
    /\ \E j \in 1..Len(ladder.probs) :
         LET best == ladder.n_phrases_maxs[j]
         IN /\ best > 1
            /\ \E k \in (best + 1)..LadderLen :
                 /\ ScaleMax(j, k) = ScaleMax(j, best)
                 /\ ladder.probs[j][k] # ladder.probs[j][best]

\* the rows at or above the cull alpha threshold in a Point Store snapshot
Opaque(S) == {i \in 1..Len(S.params["opacity"]) : S.params["opacity"][i] >= config.cull_alpha_thresh}

\* C38: for every cull alpha threshold, a point at or above the threshold
\* before an opacity reset is at or above it after the reset, and a cull run
\* directly after the reset removes no point that was at or above the
\* threshold before the reset
C38_ResetKeepsAboveThreshold ==
    /\ \A e \in Events : e.kind = "reset" => Opaque(e.before) \subseteq Opaque(e.after)
    /\ (Len(last) = 2 /\ last[1].kind = "reset" /\ last[2].kind = "cull")
         => \A i \in Opaque(last[1].before) : ~last[2].culls[i]

====
